---- MODULE Spec2Model ----
(***************************************************************************)
(* Model of cinder/volume/driver.py:                                       *)
(*   - VolumeDriver.copy_image_to_volume / copy_volume_to_image with       *)
(*     _attach_volume and _detach_volume (the attach / copy / teardown     *)
(*     bracket), one run per operation in Ops;                             *)
(*   - VolumeDriver._try_execute with _is_non_recoverable (the retry       *)
(*     loop around self._execute).                                         *)
(* The collaborators (initialize_connection, the brick connector, the      *)
(* image_utils copy, terminate_connection, self._execute) are the          *)
(* environment: each call returns or raises nondeterministically.          *)
(***************************************************************************)
EXTENDS Integers, Sequences, FiniteSets, TLC

\* ---------------------------------------------------------------- bounds
NumOps == 2
MaxShellTries == 3
MaxErrLen == 2
MaxCalls == 2
MaxLocLen == 7
MaxAuthLen == 5
MaxGeomLen == 5
MaxOutLen == 5

\* ------------------------------------------------------------- constants
DefaultShellTries == 3

Ops == 1..NumOps
Paths == {"/dev/sda", "/dev/sdb"}
NoPath == "-"
Kinds == {"image_to_volume", "volume_to_image"}

VARIABLES
    pc,          \* per operation: position in copy_*_to_* / _attach_volume
    kind,        \* per operation: which of the two copy methods runs
    conn,        \* per operation: local `connection` (conn of _attach_volume)
    device,      \* per operation: local `device` returned by connect_volume
    pending,     \* per operation: exception in flight while `finally` runs
    result,      \* per operation: "none", "ok" or the error reaching the caller
    calls,       \* per operation: collaborator calls made, in order
    tpc,             \* _try_execute: position in the loop
    tries,           \* _try_execute: local `tries`
    ex,              \* _try_execute: stderr of the caught ProcessExecutionError
    non_recoverable, \* _try_execute: local `non_recoverable` (no_retry_list)
    num_shell_tries, \* configuration.num_shell_tries
    outcomes,        \* outcomes of self._execute in the current call, in order
    slept,           \* arguments of time.sleep in the current call, in order
    tresult,         \* what the current call of _try_execute gave its caller
    callsMade,       \* number of _try_execute calls started
    rpc,             \* _get_iscsi_properties: position
    volume,          \* _get_iscsi_properties: the volume argument
    location,        \* _get_iscsi_properties: local `location`
    properties,      \* _get_iscsi_properties: local dict `properties`
    rresult,         \* what initialize_connection gave its caller
    discovery_out,   \* stdout of the iscsiadm discovery command, once run
    discovery_runs,  \* number of times the discovery command was run
    volume_driver,   \* configuration.volume_driver
    iscsi_helper     \* configuration.iscsi_helper

copyVars == <<pc, kind, conn, device, pending, result, calls>>
tryVars == <<tpc, tries, ex, non_recoverable, num_shell_tries, outcomes,
             slept, tresult, callsMade>>
resVars == <<rpc, volume, location, properties, rresult, discovery_out,
             discovery_runs, volume_driver, iscsi_helper>>
vars == <<pc, kind, conn, device, pending, result, calls,
          tpc, tries, ex, non_recoverable, num_shell_tries, outcomes,
          slept, tresult, callsMade,
          rpc, volume, location, properties, rresult, discovery_out,
          discovery_runs, volume_driver, iscsi_helper>>

\* ===================================================================
\* copy_image_to_volume / copy_volume_to_image
\* ===================================================================

\* The volume each operation works on (operations are for different volumes).
VolumeOf(o) == o

NoConn == [driver_volume_type |-> "none", data |-> 0]
NoDevice == [path |-> NoPath]

\* One collaborator call: its name, the volume its arguments identify, the
\* device path it was given or returned, and whether it returned normally.
Call(c, v, p, ok) == [call |-> c, vol |-> v, path |-> p, ok |-> ok]

\* The byte copy of each method.
CopyCall(k) == IF k = "image_to_volume" THEN "fetch_to_raw" ELSE "upload_volume"

\* Variant: exceptions raised inside the finally block are swallowed.
FinallyOutcomeSwallowed(pend, raised) == pend

\* The exception leaving a `finally` block whose body left `pend` in flight
\* and whose own statements raised `raised` ("none" when they did not).
FinallyOutcome(pend, raised) == IF raised # "none" THEN raised ELSE pend

CopyInit ==
    /\ pc = [o \in Ops |-> "idle"]
    /\ kind = [o \in Ops |-> "none"]
    /\ conn = [o \in Ops |-> NoConn]
    /\ device = [o \in Ops |-> NoDevice]
    /\ pending = [o \in Ops |-> "none"]
    /\ result = [o \in Ops |-> "none"]
    /\ calls = [o \in Ops |-> <<>>]

\* Entry of copy_image_to_volume or copy_volume_to_image, up to the call of
\* _attach_volume.
StartCopy(o) ==
    /\ pc[o] = "idle"
    /\ \E k \in Kinds : kind' = [kind EXCEPT ![o] = k]
    /\ pc' = [pc EXCEPT ![o] = "initialize_connection"]
    /\ UNCHANGED <<conn, device, pending, result, calls>>
    /\ UNCHANGED <<tryVars, resVars>>

\* An exception leaving _attach_volume: it is raised outside the try block
\* of the copy method, so it reaches the caller directly.
AttachRaises(o, err) ==
    /\ pc' = [pc EXCEPT ![o] = "done"]
    /\ result' = [result EXCEPT ![o] = err]

\* Variant: initialize_connection called inside the try block, so that its
\* failure runs the finally block too.
InitializeConnectionInsideTry(o) ==
    /\ pc[o] = "initialize_connection"
    /\ \E ok \in BOOLEAN :
        /\ calls' = [calls EXCEPT ![o] =
               Append(@, Call("initialize_connection", VolumeOf(o), NoPath, ok))]
        /\ IF ok
           THEN /\ conn' = [conn EXCEPT ![o] =
                       [driver_volume_type |-> "iscsi", data |-> VolumeOf(o)]]
                /\ pc' = [pc EXCEPT ![o] = "factory"]
                /\ UNCHANGED pending
           ELSE /\ pc' = [pc EXCEPT ![o] = "detach"]
                /\ pending' = [pending EXCEPT ![o] = "InitializeError"]
                /\ UNCHANGED conn
    /\ UNCHANGED <<kind, device, result>>
    /\ UNCHANGED <<tryVars, resVars>>

\* _attach_volume: conn = self.initialize_connection(volume, properties)
InitializeConnection(o) ==
    /\ pc[o] = "initialize_connection"
    /\ \E ok \in BOOLEAN :
        /\ calls' = [calls EXCEPT ![o] =
               Append(@, Call("initialize_connection", VolumeOf(o), NoPath, ok))]
        /\ IF ok
           THEN /\ conn' = [conn EXCEPT ![o] =
                       [driver_volume_type |-> "iscsi", data |-> VolumeOf(o)]]
                /\ pc' = [pc EXCEPT ![o] = "factory"]
                /\ UNCHANGED result
           ELSE /\ AttachRaises(o, "InitializeError")
                /\ UNCHANGED conn
    /\ UNCHANGED <<kind, device, pending>>
    /\ UNCHANGED <<tryVars, resVars>>

\* _attach_volume: connector = initiator.InitiatorConnector.factory(protocol, ...)
ConnectorFactory(o) ==
    /\ pc[o] = "factory"
    /\ \E ok \in BOOLEAN :
        /\ calls' = [calls EXCEPT ![o] =
               Append(@, Call("factory", conn[o].data, NoPath, ok))]
        /\ IF ok
           THEN /\ pc' = [pc EXCEPT ![o] = "connect_volume"]
                /\ UNCHANGED result
           ELSE AttachRaises(o, "FactoryError")
    /\ UNCHANGED <<kind, conn, device, pending>>
    /\ UNCHANGED <<tryVars, resVars>>

\* _attach_volume: device = connector.connect_volume(conn['data'])
ConnectVolume(o) ==
    /\ pc[o] = "connect_volume"
    /\ \/ \E p \in Paths :
            /\ calls' = [calls EXCEPT ![o] =
                   Append(@, Call("connect_volume", conn[o].data, p, TRUE))]
            /\ device' = [device EXCEPT ![o] = [path |-> p]]
            /\ pc' = [pc EXCEPT ![o] = "check_valid_device"]
            /\ UNCHANGED result
       \/ /\ calls' = [calls EXCEPT ![o] =
                   Append(@, Call("connect_volume", conn[o].data, NoPath, FALSE))]
          /\ AttachRaises(o, "ConnectError")
          /\ UNCHANGED device
    /\ UNCHANGED <<kind, conn, pending>>
    /\ UNCHANGED <<tryVars, resVars>>

\* Variant: the result of check_valid_device is ignored.
CheckValidDeviceIgnored(o) ==
    /\ pc[o] = "check_valid_device"
    /\ \E valid \in BOOLEAN :
        calls' = [calls EXCEPT ![o] =
            Append(@, Call("check_valid_device", conn[o].data,
                           device[o].path, valid))]
    /\ pc' = [pc EXCEPT ![o] = "copy"]
    /\ UNCHANGED <<kind, conn, device, pending, result>>
    /\ UNCHANGED <<tryVars, resVars>>

\* _attach_volume: if not connector.check_valid_device(host_device): raise
\* DeviceUnavailable; otherwise return conn, device, connector.
CheckValidDevice(o) ==
    /\ pc[o] = "check_valid_device"
    /\ \E valid \in BOOLEAN :
        /\ calls' = [calls EXCEPT ![o] =
               Append(@, Call("check_valid_device", conn[o].data,
                              device[o].path, valid))]
        /\ IF valid
           THEN /\ pc' = [pc EXCEPT ![o] = "copy"]
                /\ UNCHANGED result
           ELSE AttachRaises(o, "DeviceUnavailable")
    /\ UNCHANGED <<kind, conn, device, pending>>
    /\ UNCHANGED <<tryVars, resVars>>

\* The try body: image_utils.fetch_to_raw / upload_volume on device['path'].
\* Either way control enters the finally block.
CopyBytes(o) ==
    /\ pc[o] = "copy"
    /\ \E ok \in BOOLEAN :
        /\ calls' = [calls EXCEPT ![o] =
               Append(@, Call(CopyCall(kind[o]), VolumeOf(o), device[o].path, ok))]
        /\ pending' = [pending EXCEPT ![o] = IF ok THEN "none" ELSE "CopyError"]
    /\ pc' = [pc EXCEPT ![o] = "detach"]
    /\ UNCHANGED <<kind, conn, device, result>>
    /\ UNCHANGED <<tryVars, resVars>>

\* Variant: the device kept in one slot shared by all operations (as an
\* attribute of the driver would be) instead of a local of the call.
DetachVolumeSharedDevice(o) ==
    /\ pc[o] = "detach"
    /\ \E ok \in BOOLEAN :
        /\ calls' = [calls EXCEPT ![o] =
               Append(@, Call("disconnect_volume", conn[o].data,
                              device[1].path, ok))]
        /\ IF ok
           THEN /\ pc' = [pc EXCEPT ![o] = "terminate_connection"]
                /\ UNCHANGED result
           ELSE /\ pc' = [pc EXCEPT ![o] = "done"]
                /\ result' = [result EXCEPT ![o] =
                       FinallyOutcome(pending[o], "DisconnectError")]
    /\ UNCHANGED <<kind, conn, device, pending>>
    /\ UNCHANGED <<tryVars, resVars>>

\* finally: self._detach_volume(connection, device, connector), that is
\* connector.disconnect_volume(connection['data'], device). When it raises,
\* the finally block is left at once with that exception.
DetachVolume(o) ==
    /\ pc[o] = "detach"
    /\ \E ok \in BOOLEAN :
        /\ calls' = [calls EXCEPT ![o] =
               Append(@, Call("disconnect_volume", conn[o].data,
                              device[o].path, ok))]
        /\ IF ok
           THEN /\ pc' = [pc EXCEPT ![o] = "terminate_connection"]
                /\ UNCHANGED result
           ELSE /\ pc' = [pc EXCEPT ![o] = "done"]
                /\ result' = [result EXCEPT ![o] =
                       FinallyOutcome(pending[o], "DisconnectError")]
    /\ UNCHANGED <<kind, conn, device, pending>>
    /\ UNCHANGED <<tryVars, resVars>>

\* Variant: copy_volume_to_image leaves the finally block without calling
\* terminate_connection.
TerminateConnectionImageOnly(o) ==
    /\ pc[o] = "terminate_connection"
    /\ IF kind[o] = "image_to_volume"
       THEN \E ok \in BOOLEAN :
               /\ calls' = [calls EXCEPT ![o] =
                      Append(@, Call("terminate_connection", VolumeOf(o), NoPath, ok))]
               /\ LET out == FinallyOutcome(pending[o],
                                            IF ok THEN "none" ELSE "TerminateError")
                  IN result' = [result EXCEPT ![o] =
                                    IF out = "none" THEN "ok" ELSE out]
       ELSE /\ result' = [result EXCEPT ![o] =
                   IF pending[o] = "none" THEN "ok" ELSE pending[o]]
            /\ UNCHANGED calls
    /\ pc' = [pc EXCEPT ![o] = "done"]
    /\ UNCHANGED <<kind, conn, device, pending>>
    /\ UNCHANGED <<tryVars, resVars>>

\* finally: self.terminate_connection(volume, properties); then the method
\* returns None or re-raises the exception in flight.
TerminateConnection(o) ==
    /\ pc[o] = "terminate_connection"
    /\ \E ok \in BOOLEAN :
        /\ calls' = [calls EXCEPT ![o] =
               Append(@, Call("terminate_connection", VolumeOf(o), NoPath, ok))]
        /\ LET out == FinallyOutcome(pending[o],
                                     IF ok THEN "none" ELSE "TerminateError")
           IN result' = [result EXCEPT ![o] = IF out = "none" THEN "ok" ELSE out]
    /\ pc' = [pc EXCEPT ![o] = "done"]
    /\ UNCHANGED <<kind, conn, device, pending>>
    /\ UNCHANGED <<tryVars, resVars>>

CopyNext ==
    \E o \in Ops :
        \/ StartCopy(o)
        \/ InitializeConnection(o)
        \/ ConnectorFactory(o)
        \/ ConnectVolume(o)
        \/ CheckValidDevice(o)
        \/ CopyBytes(o)
        \/ DetachVolume(o)
        \/ TerminateConnection(o)

\* ------------------------------------------------- reading the call log

Idx(o) == 1..Len(calls[o])
IsCall(o, i, c) == calls[o][i].call = c
IsCopyCall(o, i) == calls[o][i].call \in {"fetch_to_raw", "upload_volume"}
Invoked(o, c) == \E i \in Idx(o) : IsCall(o, i, c)
Succeeded(o, c) == \E i \in Idx(o) : IsCall(o, i, c) /\ calls[o][i].ok
Failed(o, c) == \E i \in Idx(o) : IsCall(o, i, c) /\ ~calls[o][i].ok
CopyFailed(o) == \E i \in Idx(o) : IsCopyCall(o, i) /\ ~calls[o][i].ok
Count(o, c) == Cardinality({i \in Idx(o) : IsCall(o, i, c)})
Done(o) == pc[o] = "done"
\* The attach succeeded: _attach_volume returned to the copy method.
Attached(o) == Succeeded(o, "check_valid_device")

\* C1: when a copy operation has returned or raised, every successful
\* initialize_connection has been followed by a terminate_connection and every
\* successful connect_volume by a disconnect_volume, whichever step failed.
C1_NoDanglingAttach ==
    \A o \in Ops : Done(o) =>
        \A i \in Idx(o) :
            /\ (IsCall(o, i, "initialize_connection") /\ calls[o][i].ok) =>
                   \E j \in Idx(o) : j > i /\ IsCall(o, j, "terminate_connection")
            /\ (IsCall(o, i, "connect_volume") /\ calls[o][i].ok) =>
                   \E j \in Idx(o) : j > i /\ IsCall(o, j, "disconnect_volume")

\* C2: when the attach succeeded and disconnect_volume did not fail, the
\* finished operation has called disconnect_volume exactly once and then
\* terminate_connection exactly once, whether the byte copy returned or
\* raised, and a raised copy error is the error that reaches the caller.
C2_TeardownOnceInOrderCopyErrorSurfaces ==
    \A o \in Ops : (Done(o) /\ Attached(o) /\ ~Failed(o, "disconnect_volume")) =>
        /\ Count(o, "disconnect_volume") = 1
        /\ Count(o, "terminate_connection") = 1
        /\ \A i, j \in Idx(o) :
               (IsCall(o, i, "disconnect_volume") /\ IsCall(o, j, "terminate_connection"))
                   => i < j
        /\ CopyFailed(o) => result[o] = "CopyError"

\* C3: when connect_volume succeeded and check_valid_device returned false,
\* disconnect_volume has been called for that device by the time
\* DeviceUnavailable reaches the caller of _attach_volume.
C3_InvalidDeviceIsDisconnected ==
    \A o \in Ops : result[o] = "DeviceUnavailable" =>
        \E i \in Idx(o) : /\ IsCall(o, i, "disconnect_volume")
                          /\ calls[o][i].path = device[o].path

\* C4: disconnect_volume is called only after connect_volume returned that
\* device in the same run, terminate_connection only after initialize_connection
\* succeeded in the same run; when initialize_connection fails none of
\* connect_volume, the byte copy, disconnect_volume, terminate_connection is
\* called.
C4_NoSpuriousTeardown ==
    \A o \in Ops :
        /\ \A i \in Idx(o) :
              /\ IsCall(o, i, "disconnect_volume") =>
                     \E j \in Idx(o) : /\ j < i
                                       /\ IsCall(o, j, "connect_volume")
                                       /\ calls[o][j].ok
                                       /\ calls[o][j].path = calls[o][i].path
              /\ IsCall(o, i, "terminate_connection") =>
                     \E j \in Idx(o) : /\ j < i
                                       /\ IsCall(o, j, "initialize_connection")
                                       /\ calls[o][j].ok
        /\ Failed(o, "initialize_connection") =>
              \A i \in Idx(o) : IsCall(o, i, "initialize_connection")

\* Reached: one operation ended at a failed initialize_connection and another
\* ran its whole teardown.
C4_Witness ==
    \E o, p \in Ops :
        /\ Done(o) /\ Failed(o, "initialize_connection")
        /\ Done(p) /\ Invoked(p, "disconnect_volume")
        /\ Invoked(p, "terminate_connection")

\* C5: in the teardown after a successful attach, terminate_connection is called
\* after disconnect_volume whether disconnect_volume returned or failed.
C5_TerminateAfterDisconnectEvenOnFailure ==
    \A o \in Ops : Done(o) =>
        \A i \in Idx(o) : IsCall(o, i, "disconnect_volume") =>
            \E j \in Idx(o) : j > i /\ IsCall(o, j, "terminate_connection")

\* C6: when the byte copy raised and disconnect_volume or terminate_connection
\* raised during the cleanup, the caller receives the copy's error.
C6_CopyErrorNotMasked ==
    \A o \in Ops :
        (/\ Done(o)
         /\ CopyFailed(o)
         /\ (Failed(o, "disconnect_volume") \/ Failed(o, "terminate_connection")))
            => result[o] = "CopyError"

\* C7: the calls of one operation are ordered: initialize_connection has
\* succeeded before connect_volume, connect_volume has returned the device
\* before check_valid_device, check_valid_device has returned true for the
\* device before the byte copy, and disconnect_volume comes before
\* terminate_connection; no byte copy on a device that was not validated.
C7_StrictOrdering ==
    \A o \in Ops : \A i \in Idx(o) :
        /\ IsCall(o, i, "connect_volume") =>
               \E j \in Idx(o) : /\ j < i
                                 /\ IsCall(o, j, "initialize_connection")
                                 /\ calls[o][j].ok
        /\ IsCall(o, i, "check_valid_device") =>
               \E j \in Idx(o) : /\ j < i
                                 /\ IsCall(o, j, "connect_volume")
                                 /\ calls[o][j].ok
                                 /\ calls[o][j].path = calls[o][i].path
        /\ IsCopyCall(o, i) =>
               /\ \E j \in Idx(o) : /\ j < i
                                    /\ IsCall(o, j, "check_valid_device")
                                    /\ calls[o][j].ok
                                    /\ calls[o][j].path = calls[o][i].path
               /\ \A j \in Idx(o) : IsCall(o, j, "check_valid_device") =>
                                        (j < i /\ calls[o][j].ok)
        /\ IsCall(o, i, "terminate_connection") =>
               \E j \in Idx(o) : j < i /\ IsCall(o, j, "disconnect_volume")
        /\ IsCall(o, i, "disconnect_volume") =>
               \A j \in Idx(o) : IsCall(o, j, "terminate_connection") => i < j

\* Reached: an operation ran every step from initialize_connection to
\* terminate_connection, and another stopped at a failed validation.
C7_Witness ==
    \E o, p \in Ops :
        /\ Done(o) /\ Invoked(o, "terminate_connection")
        /\ \E i \in Idx(o) : IsCopyCall(o, i)
        /\ Done(p) /\ Failed(p, "check_valid_device")

\* ------------------------------------ comparing the runs of two operations

OpState(o) == <<pc[o], kind[o], conn[o], device[o], pending[o], result[o], calls[o]>>
NormName(c) == IF c \in {"fetch_to_raw", "upload_volume"} THEN "copy" ELSE c
\* The collaborators answered both operations alike: the same step returned or
\* raised in both, and connect_volume returned the same device path.
SameOutcomes(o, p) ==
    \A i \in Idx(o), j \in Idx(p) :
        NormName(calls[o][i].call) = NormName(calls[p][j].call) =>
            /\ calls[o][i].ok = calls[p][j].ok
            /\ IsCall(o, i, "connect_volume") => calls[o][i].path = calls[p][j].path
\* The same calls in the same order with the same arguments, each on the
\* operation's own volume, the byte copy aside.
SameCalls(o, p) ==
    /\ Len(calls[o]) = Len(calls[p])
    /\ \A i \in Idx(o) : i \in Idx(p) =>
          /\ NormName(calls[o][i].call) = NormName(calls[p][i].call)
          /\ calls[o][i].ok = calls[p][i].ok
          /\ calls[o][i].path = calls[p][i].path
          /\ calls[o][i].vol = VolumeOf(o)
          /\ calls[p][i].vol = VolumeOf(p)

\* Every call of operation o names o's own volume; the device calls after
\* connect_volume name the device o's own connect_volume returned.
C17_OwnData ==
    \A o \in Ops : \A i \in Idx(o) :
        /\ calls[o][i].vol = VolumeOf(o)
        /\ (IsCall(o, i, "disconnect_volume") \/ IsCopyCall(o, i)
               \/ IsCall(o, i, "check_valid_device")) =>
              \E j \in Idx(o) : /\ j < i
                                /\ IsCall(o, j, "connect_volume")
                                /\ calls[o][j].ok
                                /\ calls[o][j].path = calls[o][i].path
\* Two finished runs of the same method that got the same answers made the
\* same calls and ended alike, whatever ran in between their steps.
C17_SameAsAlone ==
    \A o, p \in Ops :
        (Done(o) /\ Done(p) /\ kind[o] = kind[p] /\ SameOutcomes(o, p)) =>
            (SameCalls(o, p) /\ result[o] = result[p])
\* A step of one operation leaves the state of every other operation alone.
C17_Frame ==
    \A o \in Ops : OpState(o)' # OpState(o) =>
        \A p \in Ops \ {o} : OpState(p)' = OpState(p)

\* C17: when copy operations for different volumes run interleaved step by
\* step, each calls its collaborators (teardown included) with its own
\* connection data, device and volume only, a step of one changes nothing of
\* another, and its calls and outcome depend on the answers it got alone.
C17_InterleavedOperationsIndependent ==
    /\ [](C17_OwnData /\ C17_SameAsAlone)
    /\ [][C17_Frame]_vars

\* Reached: two operations got different devices while both were attached,
\* and both ran their teardown to the end.
C17_Witness ==
    \E o, p \in Ops :
        /\ o # p
        /\ Done(o) /\ Done(p)
        /\ Invoked(o, "terminate_connection") /\ Invoked(p, "terminate_connection")
        /\ device[o].path # device[p].path

\* C18: a finished copy_image_to_volume and a finished copy_volume_to_image
\* that got the same answers from initialize_connection, the connector, the
\* copy and the teardown calls made the same attach and teardown calls with
\* the same arguments and gave the same success or error.
C18_CopyDirectionsEquivalent ==
    \A o, p \in Ops :
        (/\ Done(o) /\ Done(p)
         /\ kind[o] = "image_to_volume" /\ kind[p] = "volume_to_image"
         /\ SameOutcomes(o, p)) =>
            (SameCalls(o, p) /\ result[o] = result[p])

\* Reached: one run of each method, both through the copy (failed) and the
\* whole teardown, with the same answers.
C18_Witness ==
    \E o, p \in Ops :
        /\ Done(o) /\ Done(p)
        /\ kind[o] = "image_to_volume" /\ kind[p] = "volume_to_image"
        /\ SameOutcomes(o, p)
        /\ CopyFailed(o) /\ CopyFailed(p)
        /\ Invoked(o, "terminate_connection") /\ Invoked(p, "terminate_connection")

\* C19: when the attach and the byte copy succeeded and disconnect_volume or
\* terminate_connection failed, the finished operation reports that teardown
\* failure to its caller, not success.
C19_TeardownFailurePropagates ==
    \A o \in Ops : (Done(o) /\ Attached(o) /\ ~CopyFailed(o)) =>
        /\ Failed(o, "disconnect_volume") => result[o] = "DisconnectError"
        /\ Failed(o, "terminate_connection") => result[o] = "TerminateError"

\* Reached: one operation ended on a failed disconnect_volume and another on a
\* failed terminate_connection, both after a successful copy.
C19_Witness ==
    \E o, p \in Ops :
        /\ Done(o) /\ ~CopyFailed(o) /\ Failed(o, "disconnect_volume")
        /\ Done(p) /\ ~CopyFailed(p) /\ Failed(p, "terminate_connection")

\* ===================================================================
\* _try_execute
\* ===================================================================

\* stderr texts and no_retry_list entries are strings over ErrChars.
ErrChars == {"a", "b"}
Errs == UNION {[1..n -> ErrChars] : n \in 0..MaxErrLen}
NoRetryLists == SUBSET {<<"a">>, <<"b", "b">>}

\* Python's `item in err` on strings: item occurs in err as a substring.
Contains(item, err) ==
    \E i \in 0..(Len(err) - Len(item)) : SubSeq(err, i + 1, i + Len(item)) = item

\* Variant: the operands of `in` swapped.
is_non_recoverable_swapped(err, non_recoverable_list) ==
    \E item \in non_recoverable_list : Contains(err, item)

\* _is_non_recoverable(err, non_recoverable_list)
is_non_recoverable(err, non_recoverable_list) ==
    \E item \in non_recoverable_list : Contains(item, err)

\* Variant: gives up one attempt early.
ShouldRaiseEarly(t, err) ==
    \/ t + 1 >= num_shell_tries
    \/ is_non_recoverable(err, non_recoverable)

\* Variant: > in place of >=.
ShouldRaiseLate(t, err) ==
    \/ t > num_shell_tries
    \/ is_non_recoverable(err, non_recoverable)

\* The condition of the `raise` in the except block, on the incremented tries.
ShouldRaise(t, err) ==
    \/ t >= num_shell_tries
    \/ is_non_recoverable(err, non_recoverable)

NoResult == [kind |-> "none", stderr |-> <<>>]
Success == [ok |-> TRUE, stderr |-> <<>>]
Failure(e) == [ok |-> FALSE, stderr |-> e]

TryIdle ==
    /\ tpc = "idle"
    /\ tries = 0
    /\ ex = <<>>
    /\ non_recoverable = {}
    /\ outcomes = <<>>
    /\ slept = <<>>
    /\ tresult = NoResult
    /\ callsMade = 0

\* Variant: the attempt counter kept across calls (as an attribute of the
\* driver would be) instead of being set to 0 on entry.
TryStartKeepsTries ==
    /\ tpc \in {"idle", "returned", "raised"}
    /\ callsMade < MaxCalls
    /\ callsMade' = callsMade + 1
    /\ \E l \in NoRetryLists : non_recoverable' = l
    /\ ex' = <<>>
    /\ outcomes' = <<>>
    /\ slept' = <<>>
    /\ tresult' = NoResult
    /\ tpc' = "execute"
    /\ UNCHANGED <<tries, num_shell_tries>>
    /\ UNCHANGED <<copyVars, resVars>>

\* A call of _try_execute, up to the first pass of the loop:
\* non_recoverable = kwargs.pop('no_retry_list', []); tries = 0
TryStart ==
    /\ tpc \in {"idle", "returned", "raised"}
    /\ callsMade < MaxCalls
    /\ callsMade' = callsMade + 1
    /\ \E l \in NoRetryLists : non_recoverable' = l
    /\ tries' = 0
    /\ ex' = <<>>
    /\ outcomes' = <<>>
    /\ slept' = <<>>
    /\ tresult' = NoResult
    /\ tpc' = "execute"
    /\ UNCHANGED num_shell_tries
    /\ UNCHANGED <<copyVars, resVars>>

\* Variant: the exception of the first failed attempt is kept and later ones
\* are dropped.
TryExecuteKeepsFirstError ==
    /\ tpc = "execute"
    /\ \/ /\ outcomes' = Append(outcomes, Success)
          /\ tresult' = [kind |-> "True", stderr |-> <<>>]
          /\ tpc' = "returned"
          /\ UNCHANGED ex
       \/ \E e \in Errs :
             /\ outcomes' = Append(outcomes, Failure(e))
             /\ ex' = IF tries = 0 THEN e ELSE ex
             /\ tpc' = "except"
             /\ UNCHANGED tresult
    /\ UNCHANGED <<tries, non_recoverable, num_shell_tries, slept, callsMade>>
    /\ UNCHANGED <<copyVars, resVars>>

\* try: self._execute(*command, **kwargs); return True
\* The command succeeds or raises ProcessExecutionError with some stderr.
TryExecute ==
    /\ tpc = "execute"
    /\ \/ /\ outcomes' = Append(outcomes, Success)
          /\ tresult' = [kind |-> "True", stderr |-> <<>>]
          /\ tpc' = "returned"
          /\ UNCHANGED ex
       \/ \E e \in Errs :
             /\ outcomes' = Append(outcomes, Failure(e))
             /\ ex' = e
             /\ tpc' = "except"
             /\ UNCHANGED tresult
    /\ UNCHANGED <<tries, non_recoverable, num_shell_tries, slept, callsMade>>
    /\ UNCHANGED <<copyVars, resVars>>

\* Variant: the sleep placed before the test, so that it also happens after
\* the failure that is raised.
TryExceptSleepBeforeRaise ==
    /\ tpc = "except"
    /\ tries' = tries + 1
    /\ slept' = Append(slept, (tries + 1) * (tries + 1))
    /\ IF ShouldRaise(tries + 1, ex)
       THEN /\ tresult' = [kind |-> "raised", stderr |-> ex]
            /\ tpc' = "raised"
       ELSE /\ tpc' = "execute"
            /\ UNCHANGED tresult
    /\ UNCHANGED <<ex, non_recoverable, num_shell_tries, outcomes, callsMade>>
    /\ UNCHANGED <<copyVars, resVars>>

\* except ProcessExecutionError as ex: tries = tries + 1; raise when the limit
\* is reached or the error is non-recoverable; otherwise time.sleep(tries ** 2)
\* and loop.
TryExcept ==
    /\ tpc = "except"
    /\ tries' = tries + 1
    /\ IF ShouldRaise(tries + 1, ex)
       THEN /\ tresult' = [kind |-> "raised", stderr |-> ex]
            /\ tpc' = "raised"
            /\ UNCHANGED slept
       ELSE /\ slept' = Append(slept, (tries + 1) * (tries + 1))
            /\ tpc' = "execute"
            /\ UNCHANGED tresult
    /\ UNCHANGED <<ex, non_recoverable, num_shell_tries, outcomes, callsMade>>
    /\ UNCHANGED <<copyVars, resVars>>

TryStep == TryExecute \/ TryExcept

TryNext ==
    \/ TryStart
    \/ TryExecute
    \/ TryExcept

\* Python's None where a string is expected (strings are sequences of
\* one-character strings).
None == <<"<None>">>
NoProperties == <<>>
DefaultVolumeDriver == "cinder.volume.drivers.lvm.LVMISCSIDriver"
DefaultIscsiHelper == "tgtadm"
NoVolume == [id |-> 0, name |-> <<>>, provider_location |-> None,
             provider_auth |-> None, provider_geometry |-> None]

\* No call of initialize_connection / _get_iscsi_properties made yet.
ResIdle ==
    /\ rpc = "idle"
    /\ volume = NoVolume
    /\ location = None
    /\ properties = NoProperties
    /\ rresult = [kind |-> "none", error |-> "none", data |-> NoProperties]
    /\ discovery_out = None
    /\ discovery_runs = 0

TryInit ==
    /\ CopyInit
    /\ TryIdle
    /\ ResIdle
    /\ volume_driver = DefaultVolumeDriver
    /\ iscsi_helper = DefaultIscsiHelper
    /\ num_shell_tries \in 0..MaxShellTries

TrySpec == TryInit /\ [][TryNext]_vars

\* The running call takes its next step: self._execute returns or raises, and
\* the except block runs to its end.
FairTrySpec == TrySpec /\ WF_vars(TryStep)

\* ------------------------------------------------ reading the outcomes

TIdx == 1..Len(outcomes)
FailedAttempts == {i \in TIdx : ~outcomes[i].ok}
\* An entry of no_retry_list occurs in the stderr of attempt i.
Matches(i) == \E item \in non_recoverable : Contains(item, outcomes[i].stderr)
Max(a, b) == IF a >= b THEN a ELSE b
TryRunning == tpc \in {"execute", "except"}
TryEnded == tpc \in {"returned", "raised"}

\* C8: as long as the failures so far are fewer than num_shell_tries and none
\* of them carries a no_retry_list entry, the call has not raised; and once the
\* command succeeds the call has returned True after failures+1 invocations.
C8_SucceedsAfterRecoverableFailures ==
    (Cardinality(FailedAttempts) < num_shell_tries
        /\ \A i \in FailedAttempts : ~Matches(i)) =>
        /\ tpc # "raised"
        /\ tresult.kind # "raised"
        /\ \A i \in TIdx : outcomes[i].ok =>
              /\ i = Len(outcomes)
              /\ tpc = "returned"
              /\ tresult.kind = "True"
              /\ Len(outcomes) = Cardinality(FailedAttempts) + 1

\* Reached: success on the third invocation after two recoverable failures.
C8_Witness ==
    /\ tpc = "returned"
    /\ tresult.kind = "True"
    /\ Len(outcomes) = 3
    /\ non_recoverable # {}

\* C9: an attempt whose stderr contains an entry of no_retry_list is the last
\* invocation of the call, whatever its number: the error is raised with no
\* sleep and no further invocation.
C9_NonRecoverableStopsAtOnce ==
    \A i \in FailedAttempts : Matches(i) =>
        /\ i = Len(outcomes)
        /\ tpc \in {"except", "raised"}
        /\ Len(slept) = i - 1
        /\ tpc = "raised" =>
              tresult = [kind |-> "raised", stderr |-> outcomes[i].stderr]

\* Reached: a non-recoverable error on the first attempt, with attempts to
\* spare, raised after exactly one invocation; the stderr is longer than the
\* entry it contains.
C9_Witness ==
    /\ tpc = "raised"
    /\ Len(outcomes) = 1
    /\ num_shell_tries > 1
    /\ Matches(1)
    /\ outcomes[1].stderr \notin non_recoverable

\* C10 as stated: the command is invoked at most num_shell_tries times, and
\* exactly num_shell_tries times when every attempt fails recoverably.
C10_AtMostNumShellTries ==
    /\ Len(outcomes) <= num_shell_tries
    /\ (tpc = "raised" /\ \A i \in TIdx : ~outcomes[i].ok /\ ~Matches(i)) =>
           Len(outcomes) = num_shell_tries

C10_Bound ==
    /\ Len(outcomes) <= Max(1, num_shell_tries)
    /\ (tpc = "raised" /\ \A i \in TIdx : ~outcomes[i].ok /\ ~Matches(i)) =>
           Len(outcomes) = Max(1, num_shell_tries)

\* C10 (amended): every call of _try_execute ends, invoking the command at most
\* max(1, num_shell_tries) times; when every attempt fails recoverably it raises
\* after exactly max(1, num_shell_tries) invocations.
C10_AtMostMaxOneNumShellTries ==
    /\ []C10_Bound
    /\ (TryRunning ~> TryEnded)

\* Reached: every attempt failed recoverably and the call raised on reaching
\* the limit num_shell_tries = 2.
C10_Witness ==
    /\ tpc = "raised"
    /\ num_shell_tries = 2
    /\ Len(outcomes) = 2
    /\ \A i \in TIdx : ~outcomes[i].ok /\ ~Matches(i)

RECURSIVE SumSeq(_)
SumSeq(q) == IF q = <<>> THEN 0 ELSE q[1] + SumSeq(Tail(q))
RECURSIVE SumOfSquares(_)
SumOfSquares(n) == IF n <= 0 THEN 0 ELSE n * n + SumOfSquares(n - 1)

\* C11: the n-th sleep of a call is n*n units and follows the n-th failed
\* attempt, which is retried; there is no sleep before the first attempt, after
\* a success or after the failure that is raised, so a call that has made k
\* invocations and ended has slept 1 + 4 + ... + (k-1)^2 units.
C11_QuadraticBackoffBetweenAttempts ==
    /\ \A n \in 1..Len(slept) :
          /\ slept[n] = n * n
          /\ n \in TIdx /\ ~outcomes[n].ok
          /\ (n = Len(outcomes)) => tpc = "execute"
    /\ tpc = "execute" => Len(slept) = Len(outcomes)
    /\ tpc \in {"except", "returned", "raised"} =>
          /\ Len(slept) = Len(outcomes) - 1
          /\ SumSeq(slept) = SumOfSquares(Len(outcomes) - 1)

\* Reached: a call that made three invocations and slept 1 and then 4 units.
C11_Witness ==
    /\ TryEnded
    /\ Len(outcomes) = 3
    /\ slept = <<1, 4>>

\* In every call, the first included, tries counts the failures of this call
\* that the except block has handled, the first sleep is 1 unit, and the call
\* does not give up for the limit before max(1, num_shell_tries) invocations
\* of its own.
C21_FreshCounter ==
    /\ tpc = "execute" => tries = Len(outcomes)
    /\ tpc = "except" => tries = Len(outcomes) - 1
    /\ tpc = "raised" => tries = Len(outcomes)
    /\ slept # <<>> => slept[1] = 1
    /\ (tpc = "raised" /\ \A i \in TIdx : ~Matches(i)) =>
          Len(outcomes) = Max(1, num_shell_tries)
\* A step of _try_execute changes no state of the driver, and entering a call
\* sets the counter to 0.
C21_Frame ==
    /\ num_shell_tries' = num_shell_tries
    /\ copyVars' = copyVars
    /\ resVars' = resVars
    /\ callsMade' # callsMade => (tries' = 0 /\ slept' = <<>> /\ outcomes' = <<>>)

\* C21: the retry bookkeeping is per call: tries starts at 0 in every call of
\* _try_execute, whatever the earlier calls did, so every call has its full
\* num_shell_tries attempts and its first backoff is 1 unit; a call changes no
\* state of the driver.
C21_RetryBookkeepingPerCall ==
    /\ []C21_FreshCounter
    /\ [][C21_Frame]_vars

\* Reached: a second call that used all of its three attempts, sleeping 1 and
\* then 4 units, before it raised.
C21_Witness ==
    /\ callsMade = 2
    /\ num_shell_tries = 3
    /\ tpc = "raised"
    /\ Len(outcomes) = 3
    /\ slept = <<1, 4>>
    /\ \A i \in TIdx : ~Matches(i)

\* C22: when _try_execute raises, the error raised carries the stderr of the
\* last invocation made, and when it stopped before the limit that same last
\* stderr is the one that contains a no_retry_list entry.
C22_RaisesLastInvocationsError ==
    tpc = "raised" =>
        /\ outcomes # <<>>
        /\ ~outcomes[Len(outcomes)].ok
        /\ tresult = [kind |-> "raised", stderr |-> outcomes[Len(outcomes)].stderr]
        /\ Len(outcomes) < num_shell_tries => Matches(Len(outcomes))

\* Reached: a recoverable first failure, then a second failure with another
\* stderr that contains a no_retry_list entry, raised before the limit.
C22_Witness ==
    /\ tpc = "raised"
    /\ num_shell_tries = 3
    /\ Len(outcomes) = 2
    /\ outcomes[1].stderr # outcomes[2].stderr
    /\ ~Matches(1)
    /\ Matches(2)
    /\ tresult.stderr = outcomes[2].stderr

\* ===================================================================
\* ISCSIDriver.initialize_connection / _get_iscsi_properties /
\* _do_iscsi_discovery
\* ===================================================================

\* ------------------------------------------------------- Python strings

Strings(chars, n) == UNION {[1..k -> chars] : k \in 0..n}

\* s.split(c) for a one-character separator: every occurrence separates,
\* empty fields are kept.
RECURSIVE SplitOn(_, _)
SplitOn(s, c) ==
    IF \A i \in 1..Len(s) : s[i] # c
    THEN <<s>>
    ELSE LET k == CHOOSE i \in 1..Len(s) :
                      s[i] = c /\ \A j \in 1..(i - 1) : s[j] # c
         IN <<SubSeq(s, 1, k - 1)>> \o SplitOn(SubSeq(s, k + 1, Len(s)), c)

Whitespace == {" ", "\t", "\n"}

\* s.split(): runs of whitespace separate, no empty fields.
RECURSIVE SplitWs(_)
SplitWs(s) ==
    IF s = <<>> THEN <<>>
    ELSE IF s[1] \in Whitespace THEN SplitWs(Tail(s))
    ELSE LET ends == {i \in 1..Len(s) : s[i] \in Whitespace}
             k == IF ends = {} THEN Len(s) + 1
                  ELSE CHOOSE i \in ends : \A j \in ends : i <= j
         IN <<SubSeq(s, 1, k - 1)>> \o SplitWs(SubSeq(s, k, Len(s)))

\* s.splitlines(): lines are ended by "\n"; no empty last line.
SplitLines(s) ==
    LET parts == SplitOn(s, "\n")
    IN IF parts[Len(parts)] = <<>>
       THEN SubSeq(parts, 1, Len(parts) - 1)
       ELSE parts

Digits == {"0", "1", "2", "3", "4", "5", "6", "7", "8", "9"}
DigitVal(c) == CHOOSE n \in 0..9 : <<"0", "1", "2", "3", "4", "5", "6", "7", "8", "9">>[n + 1] = c
Signs == {"+", "-"}
Unsigned(s) == IF s # <<>> /\ s[1] \in Signs THEN Tail(s) ELSE s
\* int(s) does not raise ValueError.
IsInt(s) == Unsigned(s) # <<>> /\ \A i \in 1..Len(Unsigned(s)) : Unsigned(s)[i] \in Digits
RECURSIVE DecimalValue(_)
DecimalValue(s) ==
    IF s = <<>> THEN 0
    ELSE 10 * DecimalValue(SubSeq(s, 1, Len(s) - 1)) + DigitVal(s[Len(s)])
\* int(s) for a string on which it does not raise.
IntOf(s) == IF s[1] = "-" THEN 0 - DecimalValue(Unsigned(s)) ELSE DecimalValue(Unsigned(s))

\* Truth value of an optional string: None and "" are false.
Truthy(x) == x # None /\ x # <<>>

\* -------------------------------------------------------------- inputs

LocChars == {"1", ",", " "}
AuthChars == {"m", "u", " "}
GeomChars == {"4", "5", " "}
OutChars == {"1", "v", " ", "\n"}
IscsiIpAddress == <<"1">>
VolumeName == <<"v">>
VolumeId == 42

Locations == {None} \cup Strings(LocChars, MaxLocLen)
Auths == {None} \cup Strings(AuthChars, MaxAuthLen)
Geoms == {None} \cup Strings(GeomChars, MaxGeomLen)
DiscoveryOuts == Strings(OutChars, MaxOutLen)
PlainLocation == <<"1", ",", "1", " ", "1">>
PlainAuth == <<"m", " ", "u", " ", "u">>
PlainGeom == <<"4", " ", "5">>

\* The volumes passed in: any location with no auth and no geometry, any auth
\* on a well-formed location, any geometry on a well-formed location.
Volumes ==
    {[id |-> VolumeId, name |-> VolumeName, provider_location |-> l,
      provider_auth |-> a, provider_geometry |-> g] :
        l \in Locations, a \in {None}, g \in {None}}
    \cup
    {[id |-> VolumeId, name |-> VolumeName, provider_location |-> l,
      provider_auth |-> a, provider_geometry |-> g] :
        l \in {PlainLocation}, a \in Auths, g \in {None, PlainGeom}}
    \cup
    {[id |-> VolumeId, name |-> VolumeName, provider_location |-> l,
      provider_auth |-> a, provider_geometry |-> g] :
        l \in {PlainLocation}, a \in {None, PlainAuth}, g \in Geoms}

LvmIscsiDrivers == {"cinder.volume.drivers.lvm.LVMISCSIDriver",
                    "cinder.volume.drivers.lvm.ThinLVMVolumeDriver"}
VolumeDrivers == LvmIscsiDrivers \cup {"cinder.volume.drivers.nfs.NfsDriver"}
IscsiHelpers == {"tgtadm", "ietadm"}

\* ------------------------------------------------------------ the code

\* properties[k] = v
SetItem(d, k, v) == (k :> v) @@ d

\* An exception leaving _get_iscsi_properties and so initialize_connection.
ResolveRaises(err) ==
    /\ rpc' = "raised"
    /\ rresult' = [kind |-> "raised", error |-> err, data |-> NoProperties]

\* ISCSIDriver.initialize_connection up to `if location:` of
\* _get_iscsi_properties: properties = {}; location = volume['provider_location']
ResolveStart ==
    /\ rpc = "idle"
    /\ \E v \in Volumes :
        /\ volume' = v
        /\ location' = v.provider_location
        /\ IF Truthy(v.provider_location)
           THEN /\ properties' = SetItem(NoProperties, "target_discovered", FALSE)
                /\ rpc' = "parse_location"
           ELSE /\ properties' = NoProperties
                /\ rpc' = "discovery"
    /\ UNCHANGED <<rresult, discovery_out, discovery_runs, volume_driver, iscsi_helper>>
    /\ UNCHANGED <<copyVars, tryVars>>

\* Variant: any line naming the volume is taken, whatever its address.
DiscoveredTargetNameOnly(out) ==
    LET lines == SplitLines(out)
        hits == {i \in 1..Len(lines) : Contains(VolumeName, lines[i])}
    IN IF hits = {} THEN None
       ELSE lines[CHOOSE i \in hits : \A j \in hits : i <= j]

\* _do_iscsi_discovery after the command: the first line of out that contains
\* iscsi_ip_address and the volume's name, or None.
DiscoveredTarget(out) ==
    LET lines == SplitLines(out)
        hits == {i \in 1..Len(lines) :
                    Contains(IscsiIpAddress, lines[i]) /\ Contains(VolumeName, lines[i])}
    IN IF hits = {} THEN None
       ELSE lines[CHOOSE i \in hits : \A j \in hits : i <= j]

\* Variant: discovery is run whenever the method is called, and its result
\* is marked discovered only when there was no stored location.
DoIscsiDiscoveryMarksStored ==
    /\ rpc = "discovery"
    /\ discovery_runs' = discovery_runs + 1
    /\ \E out \in DiscoveryOuts :
          /\ discovery_out' = out
          /\ location' = DiscoveredTarget(out)
          /\ IF ~Truthy(DiscoveredTarget(out))
             THEN /\ ResolveRaises("InvalidVolume")
                  /\ UNCHANGED properties
             ELSE /\ properties' = SetItem(properties, "target_discovered", FALSE)
                  /\ rpc' = "parse_location"
                  /\ UNCHANGED rresult
    /\ UNCHANGED <<volume, volume_driver, iscsi_helper>>
    /\ UNCHANGED <<copyVars, tryVars>>

\* else: location = self._do_iscsi_discovery(volume); raise InvalidVolume when
\* nothing was found; properties['target_discovered'] = True. The command
\* itself may raise ProcessExecutionError.
DoIscsiDiscovery ==
    /\ rpc = "discovery"
    /\ discovery_runs' = discovery_runs + 1
    /\ \/ \E out \in DiscoveryOuts :
             /\ discovery_out' = out
             /\ location' = DiscoveredTarget(out)
             /\ IF ~Truthy(DiscoveredTarget(out))
                THEN /\ ResolveRaises("InvalidVolume")
                     /\ UNCHANGED properties
                ELSE /\ properties' = SetItem(properties, "target_discovered", TRUE)
                     /\ rpc' = "parse_location"
                     /\ UNCHANGED rresult
       \/ /\ ResolveRaises("ProcessExecutionError")
          /\ UNCHANGED <<discovery_out, location, properties>>
    /\ UNCHANGED <<volume, volume_driver, iscsi_helper>>
    /\ UNCHANGED <<copyVars, tryVars>>

\* Variant: `or` in place of `and` in the default policy.
DefaultLunEitherOne ==
    IF volume_driver \in LvmIscsiDrivers \/ iscsi_helper = "tgtadm" THEN 1 ELSE 0

\* The except branch of the lun parse: 1 for an LVM iSCSI driver with tgtadm,
\* else 0.
DefaultLun ==
    IF volume_driver \in LvmIscsiDrivers /\ iscsi_helper = "tgtadm" THEN 1 ELSE 0

\* try: int(results[2]) except (IndexError, ValueError): the default
TargetLun(results) ==
    IF Len(results) >= 3 /\ IsInt(results[3]) THEN IntOf(results[3]) ELSE DefaultLun

\* Variant: the whole first field is taken as the portal.
TargetPortalWholeField(results) == results[1]

\* results[0].split(",")[0]
TargetPortal(results) == SplitOn(results[1], ",")[1]

\* results = location.split(" ") and the target_portal, target_iqn, target_lun
\* and volume_id assignments; results[1] raises IndexError on a single field.
ParseLocation ==
    /\ rpc = "parse_location"
    /\ LET results == SplitOn(location, " ")
       IN IF Len(results) < 2
          THEN /\ ResolveRaises("IndexError")
               /\ UNCHANGED properties
          ELSE /\ properties' =
                    SetItem(SetItem(SetItem(SetItem(properties,
                        "target_portal", TargetPortal(results)),
                        "target_iqn", results[2]),
                        "target_lun", TargetLun(results)),
                        "volume_id", volume.id)
               /\ rpc' = "parse_auth"
               /\ UNCHANGED rresult
    /\ UNCHANGED <<volume, location, discovery_out, discovery_runs,
                   volume_driver, iscsi_helper>>
    /\ UNCHANGED <<copyVars, tryVars>>

\* Variant: username and password taken in the other order.
AuthPropertiesSwapped(props, fields) ==
    SetItem(SetItem(SetItem(props, "auth_method", fields[1]),
                    "auth_username", fields[3]), "auth_password", fields[2])

\* The three auth_* assignments.
AuthProperties(props, fields) ==
    SetItem(SetItem(SetItem(props, "auth_method", fields[1]),
                    "auth_username", fields[2]), "auth_password", fields[3])

\* auth = volume['provider_auth']; if auth: unpack auth.split() into three
\* names (ValueError on any other count) and set the auth_* keys.
ParseAuth ==
    /\ rpc = "parse_auth"
    /\ IF Truthy(volume.provider_auth)
       THEN LET fields == SplitWs(volume.provider_auth)
            IN IF Len(fields) # 3
               THEN /\ ResolveRaises("ValueError")
                    /\ UNCHANGED properties
               ELSE /\ properties' = AuthProperties(properties, fields)
                    /\ rpc' = "parse_geometry"
                    /\ UNCHANGED rresult
       ELSE /\ rpc' = "parse_geometry"
            /\ UNCHANGED <<properties, rresult>>
    /\ UNCHANGED <<volume, location, discovery_out, discovery_runs,
                   volume_driver, iscsi_helper>>
    /\ UNCHANGED <<copyVars, tryVars>>

\* geometry = volume.get('provider_geometry', None); if geometry: unpack
\* geometry.split() into two names and set the block sizes; return properties,
\* which initialize_connection wraps as the connection info.
ParseGeometry ==
    /\ rpc = "parse_geometry"
    /\ IF Truthy(volume.provider_geometry)
       THEN LET fields == SplitWs(volume.provider_geometry)
            IN IF Len(fields) # 2
               THEN /\ ResolveRaises("ValueError")
                    /\ UNCHANGED properties
               ELSE LET props == SetItem(SetItem(properties,
                                     "physical_block_size", fields[1]),
                                     "logical_block_size", fields[2])
                    IN /\ properties' = props
                       /\ rpc' = "returned"
                       /\ rresult' = [kind |-> "returned", error |-> "none",
                                      data |-> props]
       ELSE /\ rpc' = "returned"
            /\ rresult' = [kind |-> "returned", error |-> "none",
                           data |-> properties]
            /\ UNCHANGED properties
    /\ UNCHANGED <<volume, location, discovery_out, discovery_runs,
                   volume_driver, iscsi_helper>>
    /\ UNCHANGED <<copyVars, tryVars>>

ResolveNext ==
    \/ ResolveStart
    \/ DoIscsiDiscovery
    \/ ParseLocation
    \/ ParseAuth
    \/ ParseGeometry

ResolveInit ==
    /\ CopyInit
    /\ TryIdle
    /\ num_shell_tries = DefaultShellTries
    /\ ResIdle
    /\ volume_driver \in VolumeDrivers
    /\ iscsi_helper \in IscsiHelpers

ResolveSpec == ResolveInit /\ [][ResolveNext]_vars

\* ------------------------------------------- reading a resolution

HasKey(d, k) == k \in DOMAIN d
Resolving == rpc # "idle"
ResolveEnded == rpc \in {"returned", "raised"}
\* Some line of the discovery output contains the configured address and the
\* volume's name.
SomeLineMatches ==
    /\ discovery_out # None
    /\ \E i \in 1..Len(SplitLines(discovery_out)) :
          /\ Contains(IscsiIpAddress, SplitLines(discovery_out)[i])
          /\ Contains(volume.name, SplitLines(discovery_out)[i])
\* The part of s before the first character of stops (all of s without one).
Before(s, stops) ==
    LET at == {i \in 1..Len(s) : s[i] \in stops}
    IN IF at = {} THEN s
       ELSE SubSeq(s, 1, (CHOOSE i \in at : \A j \in at : i <= j) - 1)
\* The part of s after its first space (empty without one).
AfterFirstSpace(s) == SubSeq(s, Len(Before(s, {" "})) + 2, Len(s))
\* Number of whitespace-separated fields of s.
FieldCount(s) ==
    Cardinality({i \in 1..Len(s) :
        s[i] \notin Whitespace /\ (i = 1 \/ s[i - 1] \in Whitespace)})
RequiredKeys == {"target_discovered", "target_portal", "target_iqn",
                 "target_lun", "volume_id"}
AuthKeys == {"auth_method", "auth_username", "auth_password"}
GeomKeys == {"physical_block_size", "logical_block_size"}

\* C12: target_discovered is set to false exactly when provider_location is
\* non-empty, and then the discovery command is never run; it is set to true
\* exactly when provider_location is empty or absent, the discovery command
\* was run and a line of its output matched.
C12_TargetDiscoveredTellsTheSource ==
    /\ (HasKey(properties, "target_discovered") /\ ~properties["target_discovered"])
          <=> (Resolving /\ Truthy(volume.provider_location))
    /\ (Resolving /\ Truthy(volume.provider_location)) =>
          (discovery_runs = 0 /\ discovery_out = None)
    /\ (HasKey(properties, "target_discovered") /\ properties["target_discovered"])
          <=> (/\ Resolving
               /\ ~Truthy(volume.provider_location)
               /\ discovery_runs = 1
               /\ SomeLineMatches)

\* Reached: a resolution through discovery returned its properties.
C12_Witness ==
    /\ rpc = "returned"
    /\ discovery_runs = 1
    /\ rresult.data["target_discovered"]

\* C13: with provider_location absent, when no line of the discovery output
\* contains both iscsi_ip_address and the volume's name the resolution raises
\* InvalidVolume and initialize_connection returns no properties; when some
\* line does, the resolution does not raise InvalidVolume.
C13_NoExportFoundIsAnError ==
    (~Truthy(volume.provider_location) /\ discovery_out # None) =>
        /\ ~SomeLineMatches =>
              rresult = [kind |-> "raised", error |-> "InvalidVolume",
                         data |-> NoProperties]
        /\ SomeLineMatches => rresult.error # "InvalidVolume"

\* Reached: the discovery output had lines, one with the volume's name and one
\* with the address, none with both, and the resolution raised.
C13_Witness ==
    /\ rpc = "raised"
    /\ rresult.error = "InvalidVolume"
    /\ Len(SplitLines(discovery_out)) >= 2
    /\ Contains(<<"v">>, discovery_out)
    /\ Contains(<<"1">>, discovery_out)

\* C14: target_lun is the third field of the location when that field is
\* there and is an integer; otherwise it is 1 when volume_driver is an LVM
\* iSCSI driver and iscsi_helper is tgtadm, and 0 for every other configuration.
C14_LogicalUnitResolution ==
    HasKey(properties, "target_lun") =>
        LET rest == AfterFirstSpace(AfterFirstSpace(location))
            third == Before(rest, {" "})
            present == Cardinality({i \in 1..Len(location) : location[i] = " "}) >= 2
        IN IF present /\ IsInt(third)
           THEN properties["target_lun"] = IntOf(third)
           ELSE properties["target_lun"] =
                    (IF volume_driver \in LvmIscsiDrivers /\ iscsi_helper = "tgtadm"
                     THEN 1 ELSE 0)

\* Reached: an LVM iSCSI driver with another helper than tgtadm, a location
\* whose third field is not an integer, and the lun 0 returned.
C14_Witness ==
    /\ rpc = "returned"
    /\ volume_driver \in LvmIscsiDrivers
    /\ iscsi_helper # "tgtadm"
    /\ Len(SplitOn(location, " ")) >= 3
    /\ ~IsInt(SplitOn(location, " ")[3])
    /\ rresult.data["target_lun"] = 0

\* C15: for a location "<addr>,<portal> <target> [<lun>]" target_portal is the
\* first field up to its first comma, target_iqn is the second field as it
\* stands, and volume_id is the volume's id.
C15_PortalIqnAndVolumeId ==
    HasKey(properties, "target_portal") =>
        /\ properties["target_portal"] = Before(location, {",", " "})
        /\ properties["target_iqn"] = Before(AfterFirstSpace(location), {" "})
        /\ properties["volume_id"] = volume.id

\* Reached: "1, ,1 1" gave portal "1", target ",1" and lun 1.
C15_Witness ==
    /\ rpc = "returned"
    /\ location = <<"1", ",", " ", ",", "1", " ", "1">>
    /\ rresult.data["target_portal"] = <<"1">>
    /\ rresult.data["target_iqn"] = <<",", "1">>
    /\ rresult.data["target_lun"] = 1
    /\ rresult.data["volume_id"] = VolumeId

\* C16: for every location string (no auth, no geometry), the resolution
\* either returns properties with all of target_discovered, target_portal,
\* target_iqn, target_lun and volume_id, or raises InvalidVolume; no partial
\* set, no other exception.
C16_AllRequiredOrTypedError ==
    (/\ ResolveEnded
     /\ Truthy(location)
     /\ ~Truthy(volume.provider_auth)
     /\ ~Truthy(volume.provider_geometry)) =>
        \/ rresult.kind = "returned" /\ RequiredKeys \subseteq DOMAIN rresult.data
        \/ rresult.kind = "raised" /\ rresult.error = "InvalidVolume"

\* C20: a returned property set has no auth_* key when provider_auth is empty
\* and all three, from the three fields in order, otherwise; the block sizes
\* likewise from the two fields of provider_geometry; a provider_auth with
\* another number of fields than three, or a provider_geometry with another
\* number than two, ends the resolution with an error and no properties.
C20_AuthAndGeometryAllOrNothing ==
    /\ rpc = "returned" =>
          /\ IF Truthy(volume.provider_auth)
             THEN /\ FieldCount(volume.provider_auth) = 3
                  /\ AuthKeys \subseteq DOMAIN rresult.data
                  /\ rresult.data["auth_method"] = SplitWs(volume.provider_auth)[1]
                  /\ rresult.data["auth_username"] = SplitWs(volume.provider_auth)[2]
                  /\ rresult.data["auth_password"] = SplitWs(volume.provider_auth)[3]
             ELSE AuthKeys \cap DOMAIN rresult.data = {}
          /\ IF Truthy(volume.provider_geometry)
             THEN /\ FieldCount(volume.provider_geometry) = 2
                  /\ GeomKeys \subseteq DOMAIN rresult.data
                  /\ rresult.data["physical_block_size"] =
                         SplitWs(volume.provider_geometry)[1]
                  /\ rresult.data["logical_block_size"] =
                         SplitWs(volume.provider_geometry)[2]
             ELSE GeomKeys \cap DOMAIN rresult.data = {}
    /\ (/\ rpc \notin {"idle", "discovery", "parse_location", "parse_auth"}
        /\ HasKey(properties, "volume_id")
        /\ Truthy(volume.provider_auth)
        /\ FieldCount(volume.provider_auth) # 3) =>
          (rresult.kind = "raised" /\ rresult.data = NoProperties)
    /\ (/\ ResolveEnded
        /\ HasKey(properties, "volume_id")
        /\ Truthy(volume.provider_geometry)
        /\ FieldCount(volume.provider_geometry) # 2) =>
          (rresult.kind = "raised" /\ rresult.data = NoProperties)
    /\ \A k \in AuthKeys \cup GeomKeys :
          (rpc = "raised" /\ rresult.error = "ValueError") => ~HasKey(rresult.data, k)

\* Reached: auth "m u m"-like with username and password differing, together
\* with a geometry, all five keys returned.
C20_Witness ==
    /\ rpc = "returned"
    /\ AuthKeys \cup GeomKeys \subseteq DOMAIN rresult.data
    /\ rresult.data["auth_username"] # rresult.data["auth_password"]
    /\ rresult.data["physical_block_size"] # rresult.data["logical_block_size"]

Init ==
    /\ CopyInit
    /\ TryIdle
    /\ ResIdle
    /\ volume_driver = DefaultVolumeDriver
    /\ iscsi_helper = DefaultIscsiHelper
    /\ num_shell_tries = DefaultShellTries

Next == CopyNext

Spec == Init /\ [][Next]_vars

====
